---- MODULE Spec2Model ----
(***************************************************************************)
(* Model of 0x02-redis_basic/exercise.py: the Cache class (a facade over   *)
(* one Redis database) and the count_calls decorator.                      *)
(*                                                                         *)
(* The backend database is a function from the keys it holds to byte       *)
(* strings; a byte string is a sequence of numbers 0..255, a text is a     *)
(* sequence of Unicode code points.  Every Redis command is one atomic     *)
(* step.  A store call is two steps (the decorator's INCR, then the        *)
(* method's SET), so calls of several callers interleave between them.     *)
(***************************************************************************)
EXTENDS Integers, Sequences, FiniteSets, TLC

VARIABLES
  db,         \* the Redis database behind self._redis: key -> bytes
  frame,      \* per caller: where its store call stands, and its data argument
  issued,     \* the identifiers uuid4 has drawn in this process
  last,       \* the latest completed call: its name, its key, what it returned
  nStore,     \* history: store calls since the latest construction
  nDone,      \* history: store calls returned since the latest construction
  passed,     \* history: the (key returned, data passed) pairs since then
  erased,     \* history: the keys returned before a later construction
  nConstruct  \* history: constructions after the first

vars == <<db, frame, issued, last, nStore, nDone, passed, erased, nConstruct>>

(* ------------------------------ bounds --------------------------------- *)

\* Number of callers sharing the facade.
NumCallers == 2

\* Number of identifiers uuid4 can draw; it bounds the store calls of a run.
NumUUIDs == 2

\* Number of further Cache() constructions against the same database.
MaxConstruct == 1

Callers == 1..NumCallers

(* ------------------------------- keys ---------------------------------- *)

\* str(uuid.uuid4()): the textual rendering of a random identifier.
UUIDKey(i) == "uuid-" \o ToString(i)

UUIDs == {UUIDKey(i) : i \in 1..NumUUIDs}

\* A mutated counter name: method.__name__, the bare name of the method.
MutQualName == "store"

\* method.__qualname__ of Cache.store: the name of its call counter.
QualName == "Cache.store"

\* The text keys a caller passes to get / get_str / get_int.
Keys == UUIDs \cup {"Cache.store", "unknown"}

(* --------------------------- stored values ----------------------------- *)

\* Union[str, bytes, int, float].  str: seq holds the code points.  bytes:
\* seq holds the bytes.  int: neg and num hold sign and magnitude.  float:
\* neg, num and seq hold sign, integer part and the digits of the fraction
\* of its shortest decimal form (what repr prints below 1e16).
StrVal(cps) == [type |-> "str", neg |-> FALSE, num |-> 0, seq |-> cps]

BytesVal(bs) == [type |-> "bytes", neg |-> FALSE, num |-> 0, seq |-> bs]

IntVal(n) == [type |-> "int", neg |-> n < 0, num |-> IF n < 0 THEN -n ELSE n, seq |-> <<>>]

FloatVal(neg, whole, frac) == [type |-> "float", neg |-> neg, num |-> whole, seq |-> frac]

EmptyText == StrVal(<<>>)

\* The one-letter text U+00E9.
AccentText == StrVal(<<233>>)

\* b"\xff": bytes that are not UTF-8.
RawBytes == BytesVal(<<255>>)

FortyTwo == IntVal(42)

\* 3.14
Pi == FloatVal(FALSE, 3, <<1, 4>>)

Values == {EmptyText, AccentText, RawBytes, FortyTwo, Pi}

\* The values stored in the runs with further constructions.
FlushValues == {EmptyText, Pi}

(* ---------------------------- conversions ------------------------------ *)

RECURSIVE Digits(_)
\* str(n).encode() of n >= 0: the ASCII decimal digits.
Digits(n) == IF n < 10 THEN <<48 + n>> ELSE Digits(n \div 10) \o <<48 + (n % 10)>>

\* repr(n).encode() of an int.
IntBytes(neg, n) == (IF neg THEN <<45>> ELSE <<>>) \o Digits(n)

RECURSIVE FracDigits(_)
FracDigits(ds) == IF ds = <<>> THEN <<>> ELSE <<48 + Head(ds)>> \o FracDigits(Tail(ds))

\* repr(x).encode() of a float.
FloatBytes(neg, whole, frac) == IntBytes(neg, whole) \o <<46>> \o FracDigits(frac)

\* One code point as UTF-8.
Utf8Char(cp) ==
  IF cp < 128 THEN <<cp>>
  ELSE IF cp < 2048 THEN <<192 + (cp \div 64), 128 + (cp % 64)>>
  ELSE IF cp < 65536
    THEN <<224 + (cp \div 4096), 128 + ((cp \div 64) % 64), 128 + (cp % 64)>>
  ELSE <<240 + (cp \div 262144), 128 + ((cp \div 4096) % 64),
         128 + ((cp \div 64) % 64), 128 + (cp % 64)>>

RECURSIVE Utf8Encode(_)
\* text.encode("utf-8")
Utf8Encode(cps) == IF cps = <<>> THEN <<>> ELSE Utf8Char(Head(cps)) \o Utf8Encode(Tail(cps))

\* A mutated encoder: text written one byte per code point (Latin-1).
MutEncode(v) ==
  CASE v.type = "bytes" -> v.seq
    [] v.type = "int" -> IntBytes(v.neg, v.num)
    [] v.type = "float" -> FloatBytes(v.neg, v.num, v.seq)
    [] v.type = "str" -> v.seq

\* The bytes redis-py sends for the value given to set: bytes verbatim, int and
\* float as repr(value).encode(), str as value.encode("utf-8").
Encode(v) ==
  CASE v.type = "bytes" -> v.seq
    [] v.type = "int" -> IntBytes(v.neg, v.num)
    [] v.type = "float" -> FloatBytes(v.neg, v.num, v.seq)
    [] v.type = "str" -> Utf8Encode(v.seq)

IsCont(b, i) == i <= Len(b) /\ b[i] >= 128 /\ b[i] <= 191

Utf8Fail == [ok |-> FALSE, seq |-> <<>>]

RECURSIVE Utf8DecodeFrom(_, _)
\* d.decode("utf-8") from position i, strict: ok is FALSE where Python raises
\* UnicodeDecodeError (bad lead byte, missing continuation, overlong form,
\* surrogate, beyond U+10FFFF).
Utf8DecodeFrom(b, i) ==
  IF i > Len(b) THEN [ok |-> TRUE, seq |-> <<>>]
  ELSE
    LET b0 == b[i]
        n == IF b0 < 128 THEN 1
             ELSE IF b0 >= 194 /\ b0 <= 223 THEN 2
             ELSE IF b0 >= 224 /\ b0 <= 239 THEN 3
             ELSE IF b0 >= 240 /\ b0 <= 244 THEN 4
             ELSE 0
        conts == \A j \in 1..(n - 1) : IsCont(b, i + j)
        cp == CASE n = 1 -> b0
                [] n = 2 -> (b0 - 192) * 64 + (b[i + 1] - 128)
                [] n = 3 -> (b0 - 224) * 4096 + (b[i + 1] - 128) * 64 + (b[i + 2] - 128)
                [] n = 4 -> (b0 - 240) * 262144 + (b[i + 1] - 128) * 4096
                            + (b[i + 2] - 128) * 64 + (b[i + 3] - 128)
        wellFormed == CASE n = 1 -> TRUE
                        [] n = 2 -> TRUE
                        [] n = 3 -> cp >= 2048 /\ ~(cp >= 55296 /\ cp <= 57343)
                        [] n = 4 -> cp >= 65536 /\ cp <= 1114111
    IN IF n = 0 \/ ~conts THEN Utf8Fail
       ELSE IF ~wellFormed THEN Utf8Fail
       ELSE LET rest == Utf8DecodeFrom(b, i + n)
            IN IF rest.ok THEN [ok |-> TRUE, seq |-> <<cp>> \o rest.seq] ELSE Utf8Fail

Utf8Decode(b) == Utf8DecodeFrom(b, 1)

\* The bytes int() skips at both ends: tab, LF, VT, FF, CR, space.
Whitespace == {9, 10, 11, 12, 13, 32}

IsDigit(x) == x >= 48 /\ x <= 57

RECURSIVE LStrip(_)
LStrip(b) == IF b # <<>> /\ Head(b) \in Whitespace THEN LStrip(Tail(b)) ELSE b

RECURSIVE RStrip(_)
RStrip(b) ==
  IF b # <<>> /\ b[Len(b)] \in Whitespace THEN RStrip(SubSeq(b, 1, Len(b) - 1)) ELSE b

RECURSIVE DigitsValue(_, _)
\* The number written by digits and underscores, most significant first.
DigitsValue(b, acc) ==
  IF b = <<>> THEN acc
  ELSE IF Head(b) = 95 THEN DigitsValue(Tail(b), acc)
  ELSE DigitsValue(Tail(b), acc * 10 + (Head(b) - 48))

\* A mutated parser: int(float(d)), which also accepts a decimal fraction and
\* truncates it.
MutParseInt(b) ==
  LET s == RStrip(LStrip(b))
      dot == {i \in 1..Len(s) : s[i] = 46}
      whole == IF dot = {} THEN s ELSE SubSeq(s, 1, (CHOOSE i \in dot : TRUE) - 1)
  IN IF whole # <<>> /\ \A i \in 1..Len(whole) : IsDigit(whole[i])
       THEN [ok |-> TRUE, num |-> DigitsValue(whole, 0)]
       ELSE [ok |-> FALSE, num |-> 0]

\* int(d) of bytes d, base 10: optional surrounding whitespace, an optional
\* sign, then digits which single underscores may separate.  ok is FALSE where
\* Python raises ValueError.
ParseInt(b) ==
  LET s == RStrip(LStrip(b))
      signed == s # <<>> /\ Head(s) \in {43, 45}
      body == IF signed THEN Tail(s) ELSE s
      valid == /\ body # <<>>
               /\ IsDigit(body[1]) /\ IsDigit(body[Len(body)])
               /\ \A i \in 1..Len(body) : IsDigit(body[i]) \/ body[i] = 95
               /\ \A i \in 1..(Len(body) - 1) : ~(body[i] = 95 /\ body[i + 1] = 95)
      mag == DigitsValue(body, 0)
  IN IF valid
       THEN [ok |-> TRUE, num |-> IF signed /\ Head(s) = 45 THEN -mag ELSE mag]
       ELSE [ok |-> FALSE, num |-> 0]

(* ------------------------------ results -------------------------------- *)

\* What a call hands back to its caller: None, bytes, a str, an int, the key
\* store returns (a str, kept in last.key), or an exception that propagates.
NoneRes == [kind |-> "None", num |-> 0, seq |-> <<>>, err |-> ""]

BytesRes(b) == [kind |-> "bytes", num |-> 0, seq |-> b, err |-> ""]

StrRes(cps) == [kind |-> "str", num |-> 0, seq |-> cps, err |-> ""]

IntRes(n) == [kind |-> "int", num |-> n, seq |-> <<>>, err |-> ""]

KeyRes == [kind |-> "key", num |-> 0, seq |-> <<>>, err |-> ""]

Raise(e) == [kind |-> "raise", num |-> 0, seq |-> <<>>, err |-> e]

(* ------------------------- the backend's commands ---------------------- *)

EmptyDB == [k \in {} |-> <<>>]

\* A mutated flush that erases nothing.
MutFLUSHDB(d) == d

\* FLUSHDB: every key of the database is gone.
FLUSHDB(d) == EmptyDB

\* GET: the bytes held under k, or None.
GET(d, k) == IF k \in DOMAIN d THEN BytesRes(d[k]) ELSE NoneRes

\* SET: k holds b afterwards, whatever it held before; other keys keep theirs.
SET(d, k, b) == (k :> b) @@ d

\* The integer Redis reads in a string: an optional minus sign and digits
\* without a leading zero.
RedisInt(b) ==
  LET neg == b # <<>> /\ Head(b) = 45
      body == IF neg THEN Tail(b) ELSE b
      valid == /\ body # <<>>
               /\ \A i \in 1..Len(body) : IsDigit(body[i])
               /\ (Len(body) > 1 => body[1] # 48)
               /\ ~(neg /\ body = <<48>>)
      mag == DigitsValue(body, 0)
  IN IF valid THEN [ok |-> TRUE, num |-> IF neg THEN -mag ELSE mag]
     ELSE [ok |-> FALSE, num |-> 0]

\* INCR answers with an error, and changes nothing, when k holds no integer.
IncrRefused(d, k) == k \in DOMAIN d /\ ~RedisInt(d[k]).ok

\* A mutated counter: the count is written as 1 at every call (SET k 1).
MutINCR(d, k) == SET(d, k, <<49>>)

\* INCR: an absent k counts as 0; k holds the decimal text of its value plus 1.
INCR(d, k) ==
  IF k \notin DOMAIN d THEN SET(d, k, <<49>>)
  ELSE LET n == RedisInt(d[k]).num + 1
       IN SET(d, k, IntBytes(n < 0, IF n < 0 THEN -n ELSE n))

(* ------------------------------- Cache --------------------------------- *)

\* The fn arguments: None, get_str's lambda, get_int's lambda.
Decoders == {"none", "utf8", "int"}

\* fn(data) for the two lambdas.
Apply(fn, data) ==
  IF fn = "utf8"
    THEN LET r == Utf8Decode(data)
         IN IF r.ok THEN StrRes(r.seq) ELSE Raise("UnicodeDecodeError")
    ELSE LET r == ParseInt(data)
         IN IF r.ok THEN IntRes(r.num) ELSE Raise("ValueError")

\* A mutated get that tests "if not data": empty bytes count as no value.
MutGet(d, key, fn) ==
  LET data == GET(d, key)
  IN IF data = NoneRes \/ data.seq = <<>> THEN NoneRes
     ELSE IF fn # "none" THEN Apply(fn, data.seq) ELSE data

\* Cache.get: what the call returns or raises on database d.
get(d, key, fn) ==
  LET data == GET(d, key)
  IN IF data = NoneRes THEN NoneRes
     ELSE IF fn # "none" THEN Apply(fn, data.seq) ELSE data

\* Cache.get_str
get_str(d, key) == get(d, key, "utf8")

\* Cache.get_int
get_int(d, key) == get(d, key, "int")

\* A mutated key source that hands out the same identifier every time.
MutUuid4 == {UUIDKey(1)}

\* uuid.uuid4(): a random identifier.  The draw is taken to be one never drawn
\* by this process before, which is what the library promises of it.
uuid4 == UUIDs \ issued

Idle == [pc |-> "idle", data |-> EmptyText]

InMethod(v) == [pc |-> "method", data |-> v]

InFlight == {c \in Callers : frame[c].pc = "method"}

\* The keys store has returned since the latest construction.
Returned == {r.key : r \in passed}

\* The calls of a run are capped by the identifiers left to draw.
MayCall(c) ==
  /\ frame[c].pc = "idle"
  /\ nStore < NumUUIDs
  /\ Cardinality(issued) + Cardinality(InFlight) < NumUUIDs

Init ==
  /\ db = EmptyDB
  /\ frame = [c \in Callers |-> Idle]
  /\ issued = {}
  /\ last = [op |-> "construct", key |-> "", res |-> NoneRes]
  /\ nStore = 0
  /\ nDone = 0
  /\ passed = {}
  /\ erased = {}
  /\ nConstruct = 0

\* Cache(): a further construction against the same database.
Construct ==
  /\ nConstruct < MaxConstruct
  /\ db' = FLUSHDB(db)
  /\ last' = [op |-> "construct", key |-> "", res |-> NoneRes]
  /\ nStore' = 0
  /\ nDone' = 0
  /\ erased' = erased \cup Returned
  /\ passed' = {}
  /\ nConstruct' = nConstruct + 1
  /\ UNCHANGED <<frame, issued>>

\* A mutated decorator that does not count.
MutStoreIncr(c, v) ==
  /\ MayCall(c)
  /\ frame' = [frame EXCEPT ![c] = InMethod(v)]
  /\ nStore' = nStore + 1
  /\ UNCHANGED <<db, last, issued, nDone, passed, erased, nConstruct>>

\* count_calls.wrapper up to the call of the method: caller c calls store(v),
\* and the counter named after the method is incremented.
StoreIncr(c, v) ==
  /\ MayCall(c)
  /\ nStore' = nStore + 1
  /\ IF IncrRefused(db, QualName)
       THEN /\ last' = [op |-> "store", key |-> "", res |-> Raise("ResponseError")]
            /\ UNCHANGED <<db, frame>>
       ELSE /\ db' = INCR(db, QualName)
            /\ frame' = [frame EXCEPT ![c] = InMethod(v)]
            /\ UNCHANGED last
  /\ UNCHANGED <<issued, nDone, passed, erased, nConstruct>>

\* A mutated store that deduplicates: a value already held under a key of
\* this facade is not written again, and that key is returned.
MutStoreSet(c) ==
  /\ frame[c].pc = "method"
  /\ LET held == {r.key : r \in {x \in passed : x.data = frame[c].data}}
     IN IF held # {}
          THEN /\ \E k \in held : last' = [op |-> "store", key |-> k, res |-> KeyRes]
               /\ UNCHANGED <<db, issued, passed>>
          ELSE \E k \in uuid4 :
                 /\ db' = SET(db, k, Encode(frame[c].data))
                 /\ issued' = issued \cup {k}
                 /\ passed' = passed \cup {[key |-> k, data |-> frame[c].data]}
                 /\ last' = [op |-> "store", key |-> k, res |-> KeyRes]
  /\ frame' = [frame EXCEPT ![c] = Idle]
  /\ nDone' = nDone + 1
  /\ UNCHANGED <<nStore, erased, nConstruct>>

\* The body of Cache.store: a key is drawn, the value written under it, and
\* the key returned.
StoreSet(c) ==
  /\ frame[c].pc = "method"
  /\ \E k \in uuid4 :
       /\ db' = SET(db, k, Encode(frame[c].data))
       /\ issued' = issued \cup {k}
       /\ passed' = passed \cup {[key |-> k, data |-> frame[c].data]}
       /\ last' = [op |-> "store", key |-> k, res |-> KeyRes]
  /\ frame' = [frame EXCEPT ![c] = Idle]
  /\ nDone' = nDone + 1
  /\ UNCHANGED <<nStore, erased, nConstruct>>

\* A mutated read that consumes the key (GETDEL).
MutGetCall(c, k) ==
  /\ frame[c].pc = "idle"
  /\ last' = [op |-> "get", key |-> k, res |-> get(db, k, "none")]
  /\ db' = [x \in DOMAIN db \ {k} |-> db[x]]
  /\ UNCHANGED <<frame, issued, nStore, nDone, passed, erased, nConstruct>>

\* Caller c calls get(k) with no fn.
GetCall(c, k) ==
  /\ frame[c].pc = "idle"
  /\ last' = [op |-> "get", key |-> k, res |-> get(db, k, "none")]
  /\ UNCHANGED <<db, frame, issued, nStore, nDone, passed, erased, nConstruct>>

\* Caller c calls get_str(k).
GetStr(c, k) ==
  /\ frame[c].pc = "idle"
  /\ last' = [op |-> "get_str", key |-> k, res |-> get_str(db, k)]
  /\ UNCHANGED <<db, frame, issued, nStore, nDone, passed, erased, nConstruct>>

\* Caller c calls get_int(k).
GetInt(c, k) ==
  /\ frame[c].pc = "idle"
  /\ last' = [op |-> "get_int", key |-> k, res |-> get_int(db, k)]
  /\ UNCHANGED <<db, frame, issued, nStore, nDone, passed, erased, nConstruct>>

\* The backend fails the decorator's INCR: the error reaches the caller and
\* the method is not called.
StoreIncrFail(c) ==
  /\ MayCall(c)
  /\ nStore' = nStore + 1
  /\ last' = [op |-> "store", key |-> "", res |-> Raise("ConnectionError")]
  /\ UNCHANGED <<db, frame, issued, nDone, passed, erased, nConstruct>>

\* The backend fails the method's SET: the key was drawn, nothing is written,
\* and the error reaches the caller.
StoreSetFail(c) ==
  /\ frame[c].pc = "method"
  /\ \E k \in uuid4 : issued' = issued \cup {k}
  /\ frame' = [frame EXCEPT ![c] = Idle]
  /\ last' = [op |-> "store", key |-> "", res |-> Raise("ConnectionError")]
  /\ UNCHANGED <<db, nStore, nDone, passed, erased, nConstruct>>

\* One facade, a backend that serves every command.
Next ==
  \/ \E c \in Callers, v \in Values : StoreIncr(c, v)
  \/ \E c \in Callers : StoreSet(c)
  \/ \E c \in Callers, k \in Keys : GetCall(c, k)
  \/ \E c \in Callers, k \in Keys : GetStr(c, k)
  \/ \E c \in Callers, k \in Keys : GetInt(c, k)

Spec == Init /\ [][Next]_vars

\* Further facades are constructed against the same database.
NextFlush ==
  \/ Construct
  \/ \E c \in Callers, v \in FlushValues : StoreIncr(c, v)
  \/ \E c \in Callers : StoreSet(c)
  \/ \E c \in Callers, k \in Keys : GetCall(c, k)
  \/ \E c \in Callers, k \in Keys : GetStr(c, k)
  \/ \E c \in Callers, k \in Keys : GetInt(c, k)

SpecFlush == Init /\ [][NextFlush]_vars

\* One facade, a backend that may fail either command of store.
NextFail ==
  \/ \E c \in Callers, v \in Values : StoreIncr(c, v)
  \/ \E c \in Callers : StoreSet(c)
  \/ \E c \in Callers : StoreIncrFail(c)
  \/ \E c \in Callers : StoreSetFail(c)
  \/ \E c \in Callers, k \in Keys : GetCall(c, k)
  \/ \E c \in Callers, k \in Keys : GetStr(c, k)
  \/ \E c \in Callers, k \in Keys : GetInt(c, k)

SpecFail == Init /\ [][NextFail]_vars

(* ------------------------------ claims --------------------------------- *)

\* The store counter as read directly from the backend; no counter reads 0.
CounterValue == IF QualName \in DOMAIN db THEN RedisInt(db[QualName]).num ELSE 0

\* The value keys of the backend: every key but the counter's.
ValueKeys == DOMAIN db \ {QualName}

\* The canonical encoding of each value, byte by byte.
CanonicalBytes(v) ==
  CASE v = EmptyText -> <<>>
    [] v = AccentText -> <<195, 169>>
    [] v = RawBytes -> <<255>>
    [] v = FortyTwo -> <<52, 50>>
    [] v = Pi -> <<51, 46, 49, 52>>

\* C1: get(store(v)) with no decoder returns the canonical bytes of v (text as
\* UTF-8, bytes verbatim, numbers as their text form); the empty value comes
\* back as empty bytes, not as absent.
C1_RoundTrip ==
  \A r \in passed : get(db, r.key, "none") = BytesRes(CanonicalBytes(r.data))

\* A get of the key of a stored empty text has returned empty bytes.
C1_Witness ==
  /\ last.op = "get"
  /\ [key |-> last.key, data |-> EmptyText] \in passed
  /\ last.res = BytesRes(<<>>)

\* C2, as stated: a get of a key that no store call returned comes back
\* absent, the counter's name included.
C2_Original ==
  (last.op = "get" /\ last.key \notin Returned) => last.res = NoneRes

\* C2, amended: get(k) returns absent for every key k that no store call
\* returned, except the counter's name: get("Cache.store") is absent until the
\* first store call and the decimal text of the number of store calls after.
C2_Amended ==
  /\ \A k \in Keys \ {"Cache.store"} :
       k \notin Returned => get(db, k, "none") = NoneRes
  /\ get(db, "Cache.store", "none")
       = IF nStore = 0 THEN NoneRes ELSE BytesRes(Digits(nStore))

\* A get of the counter's name has returned bytes.
C2_Witness ==
  /\ last.op = "get"
  /\ last.key = "Cache.store"
  /\ last.res = BytesRes(<<49>>)

\* C3: the store counter read from the backend equals the number of store
\* calls since construction; get, get_str and get_int add nothing.
C3_CounterCounts ==
  /\ CounterValue = nStore
  /\ nStore > 0 => GET(db, QualName) = BytesRes(Digits(nStore))

\* Two stores were made and get_int of the counter read 2.
C3_Witness ==
  /\ nStore = 2
  /\ last.op = "get_int"
  /\ last.key = QualName
  /\ last.res = IntRes(2)

\* C4: store never deduplicates by value and never reuses a key: the value
\* keys of the backend, and the keys drawn, are as many as the completed
\* stores, and each returned key holds a value.
C4_DistinctKeys ==
  /\ Cardinality(ValueKeys) = nDone
  /\ Cardinality(issued) = nDone
  /\ Returned = ValueKeys

\* Two completed stores of equal values hold two distinct keys.
C4_Witness ==
  /\ nDone = 2
  /\ \E k1, k2 \in ValueKeys : k1 # k2 /\ db[k1] = db[k2] /\ \E v \in Values : {[key |-> k1, data |-> v], [key |-> k2, data |-> v]} \subseteq passed

\* C5: after a further construction every key a store returned before it is
\* absent, whatever the decoder, and the store counter is absent until the
\* next store.
C5_FlushErases ==
  /\ \A k \in erased : \A fn \in Decoders : get(db, k, fn) = NoneRes
  /\ nStore = 0 => GET(db, QualName) = NoneRes
  /\ (nConstruct > 0 /\ nStore = 0 /\ nDone = 0) => db = EmptyDB

\* After a construction, a get of a key returned before it has come back absent.
C5_Witness ==
  /\ nConstruct = 1
  /\ last.op = "get"
  /\ last.key \in erased
  /\ last.res = NoneRes
  /\ nStore = 0

\* C6: short of a construction, no step changes what get returns for a key a
\* store has returned, and a step that is no store step changes no backend key.
C6_Frame ==
  [][nConstruct' = nConstruct =>
       /\ \A k \in Returned : GET(db', k) = GET(db, k)
       /\ frame' = frame => db' = db]_vars

\* With two values stored, a failing get_int has left its key as written.
C6_Witness ==
  /\ Cardinality(Returned) = 2
  /\ last.op = "get_int"
  /\ last.res = Raise("ValueError")
  /\ \E r \in passed : r.key = last.key /\ GET(db, r.key) = BytesRes(Encode(r.data))

\* C7: under every interleaving of the two commands of concurrent store calls,
\* the counter equals the calls completed plus those between their commands,
\* hence the number of calls once all have completed, and every returned key
\* holds the value its own caller passed.
C7_Concurrent ==
  /\ CounterValue = nDone + Cardinality(InFlight)
  /\ InFlight = {} => CounterValue = nStore
  /\ \A r \in passed : GET(db, r.key) = BytesRes(Encode(r.data))

\* Two callers are between the two commands of their store calls.
C7_Witness ==
  /\ \E c1, c2 \in InFlight : c1 # c2 /\ frame[c1].data # frame[c2].data
  /\ CounterValue = 2

\* C8: get_int of bytes that are no integer literal raises ValueError, and the
\* call changes nothing in the backend: get and get_str read the value as
\* before.
C8_DecodeError ==
  /\ [](\A k \in DOMAIN db : ~ParseInt(db[k]).ok => get_int(db, k) = Raise("ValueError"))
  /\ [](\A r \in passed : r.data = Pi =>
          /\ get_int(db, r.key) = Raise("ValueError")
          /\ get(db, r.key, "none") = BytesRes(<<51, 46, 49, 52>>)
          /\ get_str(db, r.key) = StrRes(<<51, 46, 49, 52>>))
  /\ [][(last' # last /\ last'.op = "get_int") => db' = db]_vars

\* get_int of the key of a stored 3.14 has raised ValueError.
C8_Witness ==
  /\ last.op = "get_int"
  /\ last.res = Raise("ValueError")
  /\ [key |-> last.key, data |-> Pi] \in passed
  /\ get_str(db, last.key) = StrRes(<<51, 46, 49, 52>>)

\* C9: for a key the backend does not hold, get with any decoder returns
\* absent and raises nothing; for a key it holds, the decoder is applied, also
\* to an empty value: get returns empty bytes, get_str the empty text, and
\* get_int raises.
C9_Absence ==
  /\ \A k \in Keys : \A fn \in Decoders :
       get(db, k, fn) = NoneRes <=> k \notin DOMAIN db
  /\ \A k \in DOMAIN db : db[k] = <<>> =>
       /\ get(db, k, "none") = BytesRes(<<>>)
       /\ get_str(db, k) = StrRes(<<>>)
       /\ get_int(db, k) = Raise("ValueError")
  /\ last.res.kind = "raise" /\ last.op # "store" => last.key \in DOMAIN db

\* get_str of the key of a stored empty value has returned the empty text.
C9_Witness ==
  /\ last.op = "get_str"
  /\ last.key \in DOMAIN db
  /\ db[last.key] = <<>>
  /\ last.res = StrRes(<<>>)

\* C10: the counter is incremented before the value is written: the counter
\* is never below the number of value keys, it counts every call whose
\* increment was served (completed, between its commands, or failed at the
\* write), and a failed write adds no key.
C10_CounterFirst ==
  /\ CounterValue >= Cardinality(ValueKeys)
  /\ CounterValue = Cardinality(issued) + Cardinality(InFlight)
  /\ Cardinality(ValueKeys) = nDone

\* A store whose write failed has left the counter at 1 and no value key.
C10_Witness ==
  /\ last = [op |-> "store", key |-> "", res |-> Raise("ConnectionError")]
  /\ InFlight = {}
  /\ issued # {}
  /\ CounterValue = 1
  /\ DOMAIN db = {QualName}

====
